---------------------------- MODULE Spec2Model ----------------------------
(***************************************************************************)
(* Viceualize: the ingestion pipeline process_files of src/viceualize.py.  *)
(* A directory of spreadsheets is read file by file; every sheet is        *)
(* reduced to a mapping date -> row total, and warnings are printed for    *)
(* rows with non-numeric cells and for duplicate dates.                    *)
(*                                                                         *)
(* Cells are a tagged union of what a spreadsheet reader hands to pandas:  *)
(* integers, booleans, blanks, text and datetime objects.  Non-integral    *)
(* decimals are left out of the input domain.  Timestamps are written as   *)
(* the integer yyyymmdd.  A file name is the file's position in the        *)
(* directory listing (base names of one directory are distinct).           *)
(***************************************************************************)
EXTENDS Integers, Sequences, FiniteSets, TLC

(* ------------------------------ bounds -------------------------------- *)
MaxRows == 3
MaxFiles == 3

(* --------------------------- program constants ------------------------ *)
\* the sheet must have the columns 0..4 (line 53: cols = [1, 2, 3, 4])
NumCols == 5
\* 1-based positions, in a row, of the amount columns 1, 2, 3, 4
cols == 2..NumCols

(* ------------------------------- cells -------------------------------- *)
IntCell(n) == [k |-> "int", n |-> n, s |-> ""]
BoolCell(b) == [k |-> "bool", n |-> IF b THEN 1 ELSE 0, s |-> ""]
BlankCell == [k |-> "blank", n |-> 0, s |-> ""]
TextCell(s) == [k |-> "text", n |-> 0, s |-> s]
DatetimeCell(d) == [k |-> "datetime", n |-> d, s |-> ""]

\* the result of a coercion with errors="coerce": a value or the null marker
NA == [isna |-> TRUE, v |-> 0]
Val(x) == [isna |-> FALSE, v |-> x]

(* --------------------- pandas coercions, per cell --------------------- *)
\* the general date parser on the text values of the input domain
ParseDateText(s) ==
    CASE s = "2024-01-01" -> Val(20240101)
      [] s = "2024-01-02" -> Val(20240102)
      [] OTHER -> NA

\* pd.to_datetime(..., errors="coerce") on one cell of column 0
ToDatetime(c) ==
    CASE c.k = "datetime" -> Val(c.n)
      [] c.k = "text" -> ParseDateText(c.s)
      [] c.k = "blank" -> NA

\* the float parser of pd.to_numeric on the text values of the input domain
ParseNumericText(s) ==
    CASE s = "5" -> Val(5)
      [] s = "3" -> Val(3)
      [] OTHER -> NA

\* pd.to_numeric(..., errors="coerce") on one cell: integers are kept, a
\* boolean is taken as the number 1 or 0, text goes through the float
\* parser, anything else becomes the null marker
ToNumeric(c) ==
    CASE c.k = "int" -> Val(c.n)
      [] c.k = "bool" -> Val(c.n)
      [] c.k = "text" -> ParseNumericText(c.s)
      [] c.k = "blank" -> NA
      [] c.k = "datetime" -> NA

\* variant: a mask that lets every row through
NotNaAll(x) == TRUE

\* Series.notna()
NotNa(x) == ~x.isna

(* --------------------------- pandas, per row -------------------------- *)
RECURSIVE SumSkipNa(_, _)
\* DataFrame.sum(axis=1) over the columns cs of one row: nulls are skipped
SumSkipNa(row, cs) ==
    IF cs = {} THEN 0
    ELSE LET c == CHOOSE x \in cs : TRUE
             x == ToNumeric(row[c])
         IN  (IF x.isna THEN 0 ELSE x.v) + SumSkipNa(row, cs \ {c})

\* line 55: df_numeric.sum(axis=1)
RowSum(row) == SumSkipNa(row, cols)

\* line 56: df_numeric.isna().sum(axis=1)
RowInvalidCount(row) == Cardinality({c \in cols : ToNumeric(row[c]).isna})

\* variant: the header row is not counted
OriginalIndexNoHeader(index) == index + 1

\* line 50: the row number shown to the user, from the zero-based label
OriginalIndex(index) == index + 2

(* --------------------------- pandas, per frame ------------------------ *)
\* lines 45-46: the date column coerced in one pass, and its notna mask
ValidDates(d) == [p \in 1..Len(d) |-> NotNa(ToDatetime(d[p][1]))]

\* lines 47-50: the rows whose mask is set, in sheet order, each keeping its
\* zero-based label of the sheet, with the coerced date and original_index
DfValid(d, vd) ==
    LET F[p \in 0..Len(d)] ==
            IF p = 0 THEN <<>>
            ELSE IF vd[p]
                 THEN Append(F[p - 1],
                             [index |-> p - 1,
                              date |-> ToDatetime(d[p][1]).v,
                              row |-> d[p],
                              original_index |-> OriginalIndex(p - 1)])
                 ELSE F[p - 1]
    IN  F[Len(d)]

\* variant: the mask is counted without being negated
NumDateErrorsNotNegated(vd) == Cardinality({p \in DOMAIN vd : vd[p]})

\* line 72: (~valid_dates).sum()
NumDateErrors(vd) == Cardinality({p \in DOMAIN vd : ~vd[p]})

\* line 59: the positions in df_valid of the rows with invalid_count > 0
InvalidRows(ic) == {p \in DOMAIN ic : ic[p] > 0}

\* line 65: duplicated(subset=[0], keep='first'): every row whose date
\* already occurs in an earlier row of df_valid
Duplicated(dv) == {p \in DOMAIN dv : \E q \in 1..(p - 1) : dv[q].date = dv[p].date}

\* variant: the first row of a date is the one that stays
ToDictKeepFirst(dv, sv) ==
    [d \in {dv[p].date : p \in DOMAIN dv} |->
        LET first == CHOOSE p \in DOMAIN dv :
                         /\ dv[p].date = d
                         /\ \A q \in DOMAIN dv : dv[q].date = d => p <= q
        IN  sv[first]]

\* line 71: set_index(0)['sum_val'].to_dict(): the dictionary is filled in
\* row order, so the last row of a date is the one that stays
ToDict(dv, sv) ==
    [d \in {dv[p].date : p \in DOMAIN dv} |->
        LET last == CHOOSE p \in DOMAIN dv :
                        /\ dv[p].date = d
                        /\ \A q \in DOMAIN dv : dv[q].date = d => q <= p
        IN  sv[last]]

(* ------------------------------ the sink ------------------------------ *)
Msg(kind, file, row, count, date, errors) ==
    [kind |-> kind, file |-> file, row |-> row, count |-> count,
     date |-> date, errors |-> errors]

\* line 29
NoFilesMsg == Msg("nofiles", 0, 0, 0, 0, 0)
\* line 34
ProcessingMsg(f) == Msg("processing", f, 0, 0, 0, 0)
\* line 41
ReadErrorMsg(f) == Msg("readerror", f, 0, 0, 0, 0)
\* lines 61-62
InvalidMsg(f, r, n) == Msg("invalid", f, r, n, 0, 0)
\* lines 67-68
DuplicateMsg(f, r, d) == Msg("duplicate", f, r, 0, d, 0)
\* line 74
SummaryMsg(f, n, e) == Msg("summary", f, 0, n, 0, e)

RECURSIVE InReverseOrder(_)
\* variant: the positions of a frame subset in descending order
InReverseOrder(S) ==
    IF S = {} THEN <<>>
    ELSE LET m == CHOOSE x \in S : \A y \in S : y <= x
         IN  <<m>> \o InReverseOrder(S \ {m})

RECURSIVE InOrder(_)
\* the positions of a frame subset in ascending order (iterrows order)
InOrder(S) ==
    IF S = {} THEN <<>>
    ELSE LET m == CHOOSE x \in S : \A y \in S : x <= y
         IN  <<m>> \o InOrder(S \ {m})

\* lines 60-62: one warning per row of invalid_rows, in frame order
InvalidWarnings(f, dv, ic) ==
    LET ps == InOrder(InvalidRows(ic))
    IN  [j \in 1..Len(ps) |-> InvalidMsg(f, dv[ps[j]].original_index, ic[ps[j]])]

\* lines 66-68: one warning per row of duplicates, in frame order
DuplicateWarnings(f, dv) ==
    LET ps == InOrder(Duplicated(dv))
    IN  [j \in 1..Len(ps) |-> DuplicateMsg(f, dv[ps[j]].original_index, dv[ps[j]].date)]

\* variant: the counts line is printed for an empty listing too
EmptyListOutputWithCounts(o) == Append(Append(o, NoFilesMsg), SummaryMsg(0, 0, 0))

\* lines 28-29: what is printed when the listing is empty
EmptyListOutput(o) == Append(o, NoFilesMsg)

(* ------------------------------ inputs -------------------------------- *)
SeqsUpTo(S, n) == UNION {[1..m -> S] : m \in 0..n}

Unreadable == [readable |-> FALSE, ncols |-> 0, rows |-> <<>>]
\* a sheet as pd.read_excel(skiprows=1, header=None) returns it: a sheet
\* without data rows is a frame without columns
Sheet(rows) == [readable |-> TRUE,
                ncols |-> IF rows = <<>> THEN 0 ELSE Len(rows[1]),
                rows |-> rows]

AmountCells == {IntCell(5), IntCell(3), BoolCell(TRUE), BlankCell, TextCell("abc"), TextCell("5")}
DateCells == {DatetimeCell(20240101), DatetimeCell(20240102), TextCell("2024-01-01"),
              TextCell("not-a-date")}
AmountRows == {<<IntCell(1), IntCell(2), IntCell(3), IntCell(4)>>,
               <<IntCell(5), IntCell(5), IntCell(5), IntCell(5)>>,
               <<TextCell("abc"), IntCell(5), BlankCell, IntCell(3)>>}

\* one file of one row, every combination of amount cells
RichInputs ==
    {<<Sheet(<<(<<d>> \o a)>>)>> :
        d \in {DatetimeCell(20240101), BlankCell}, a \in [1..4 -> AmountCells]}

\* one file of up to MaxRows rows
SheetInputs ==
    {<<Sheet(rs)>> :
        rs \in SeqsUpTo({<<d>> \o a : d \in DateCells, a \in AmountRows}, MaxRows)}

\* up to MaxFiles files: unreadable, without data rows, too narrow, regular
BatchFiles ==
    {Unreadable,
     Sheet(<<>>),
     Sheet(<<(<<DatetimeCell(20240101), IntCell(1), IntCell(2)>>)>>),
     Sheet(<<(<<TextCell("not-a-date"), IntCell(1), IntCell(2), IntCell(3), IntCell(4)>>)>>),
     Sheet(<<(<<DatetimeCell(20240102), TextCell("abc"), IntCell(5), BlankCell, IntCell(3)>>)>>),
     Sheet(<<(<<DatetimeCell(20240101), TextCell("abc"), IntCell(5), BlankCell, IntCell(3)>>),
             (<<TextCell("not-a-date"), IntCell(1), IntCell(2), IntCell(3), IntCell(4)>>),
             (<<TextCell("2024-01-01"), IntCell(5), TextCell("abc"), IntCell(5), IntCell(5)>>)>>)}
BatchInputs == SeqsUpTo(BatchFiles, MaxFiles)

Inputs == RichInputs \cup SheetInputs \cup BatchInputs

(* ------------------------------- state -------------------------------- *)
VARIABLES
    file_list,      \* the files the two glob calls found, in listing order
    pc,             \* position in process_files
    i,              \* position of file_path in file_list
    df,             \* the frame of the current file
    valid_dates,    \* the notna mask of the coerced date column
    df_valid,       \* the rows with a valid date
    sum_val,        \* df_valid['sum_val']
    invalid_count,  \* df_valid['invalid_count']
    head_dict,      \* filename -> (date -> total)
    out             \* everything printed so far

vars == <<file_list, pc, i, df, valid_dates, df_valid, sum_val, invalid_count,
          head_dict, out>>

frame == <<df, valid_dates, df_valid, sum_val, invalid_count>>

EmptyDict == [x \in {} |-> 0]

\* line 33: os.path.basename(file_path)
FileName(n) == n

Init ==
    /\ file_list \in Inputs
    /\ pc = "start"
    /\ i = 1
    /\ df = <<>>
    /\ valid_dates = <<>>
    /\ df_valid = <<>>
    /\ sum_val = <<>>
    /\ invalid_count = <<>>
    /\ head_dict = EmptyDict
    /\ out = <<>>

(* ------------------------------ actions ------------------------------- *)
\* lines 28-30: nothing found
NoFiles ==
    /\ pc = "start"
    /\ file_list = <<>>
    /\ out' = EmptyListOutput(out)
    /\ pc' = "done"
    /\ UNCHANGED <<file_list, i, frame, head_dict>>

\* line 32: the loop is entered
EnterLoop ==
    /\ pc = "start"
    /\ file_list # <<>>
    /\ pc' = "loop"
    /\ UNCHANGED <<file_list, i, frame, head_dict, out>>

\* lines 32-37: the next file is announced
NextFile ==
    /\ pc = "loop"
    /\ i <= Len(file_list)
    /\ out' = Append(out, ProcessingMsg(FileName(i)))
    /\ pc' = "read"
    /\ UNCHANGED <<file_list, i, frame, head_dict>>

\* line 39: the reader returns a frame
ReadOk ==
    /\ pc = "read"
    /\ file_list[i].readable
    /\ df' = file_list[i].rows
    /\ pc' = "dates"
    /\ UNCHANGED <<file_list, i, valid_dates, df_valid, sum_val, invalid_count,
                   head_dict, out>>

\* lines 40-42: the reader raises; the file is reported and skipped
ReadError ==
    /\ pc = "read"
    /\ ~file_list[i].readable
    /\ out' = Append(out, ReadErrorMsg(FileName(i)))
    /\ i' = i + 1
    /\ pc' = "loop"
    /\ UNCHANGED <<file_list, frame, head_dict>>

\* lines 45-50: the date column is coerced and the valid rows are selected
ParseDates ==
    /\ pc = "dates"
    /\ file_list[i].ncols >= 1
    /\ valid_dates' = ValidDates(df)
    /\ df_valid' = DfValid(df, ValidDates(df))
    /\ pc' = "numeric"
    /\ UNCHANGED <<file_list, i, df, sum_val, invalid_count, head_dict, out>>

\* line 45: df[0] of a frame without columns raises KeyError, which nothing
\* catches
ParseDatesKeyError ==
    /\ pc = "dates"
    /\ file_list[i].ncols < 1
    /\ pc' = "raised"
    /\ UNCHANGED <<file_list, i, frame, head_dict, out>>

\* lines 53-56: the amount columns are coerced, summed and counted
Numeric ==
    /\ pc = "numeric"
    /\ file_list[i].ncols >= NumCols
    /\ sum_val' = [p \in DOMAIN df_valid |-> RowSum(df_valid[p].row)]
    /\ invalid_count' = [p \in DOMAIN df_valid |-> RowInvalidCount(df_valid[p].row)]
    /\ pc' = "invalid"
    /\ UNCHANGED <<file_list, i, df, valid_dates, df_valid, head_dict, out>>

\* line 54: df_valid[[1, 2, 3, 4]] of a frame lacking one of these columns
\* raises KeyError, which nothing catches
NumericKeyError ==
    /\ pc = "numeric"
    /\ file_list[i].ncols < NumCols
    /\ pc' = "raised"
    /\ UNCHANGED <<file_list, i, frame, head_dict, out>>

\* lines 59-62
ReportInvalid ==
    /\ pc = "invalid"
    /\ out' = out \o InvalidWarnings(FileName(i), df_valid, invalid_count)
    /\ pc' = "dups"
    /\ UNCHANGED <<file_list, i, frame, head_dict>>

\* lines 65-68
ReportDuplicates ==
    /\ pc = "dups"
    /\ out' = out \o DuplicateWarnings(FileName(i), df_valid)
    /\ pc' = "final"
    /\ UNCHANGED <<file_list, i, frame, head_dict>>

\* lines 71-75: the series is built, the counts are printed, the series is
\* stored under the file name, and the loop goes on
Finalize ==
    /\ pc = "final"
    /\ out' = Append(out, SummaryMsg(FileName(i), Len(df_valid),
                                     NumDateErrors(valid_dates)))
    /\ head_dict' = [f \in DOMAIN head_dict \cup {FileName(i)} |->
                        IF f = FileName(i) THEN ToDict(df_valid, sum_val)
                        ELSE head_dict[f]]
    /\ i' = i + 1
    /\ pc' = "loop"
    /\ UNCHANGED <<file_list, frame>>

\* line 77
Return ==
    /\ pc = "loop"
    /\ i > Len(file_list)
    /\ pc' = "done"
    /\ UNCHANGED <<file_list, i, frame, head_dict, out>>

Next ==
    \/ NoFiles
    \/ EnterLoop
    \/ NextFile
    \/ ReadOk
    \/ ReadError
    \/ ParseDates
    \/ ParseDatesKeyError
    \/ Numeric
    \/ NumericKeyError
    \/ ReportInvalid
    \/ ReportDuplicates
    \/ Finalize
    \/ Return

Spec == Init /\ [][Next]_vars

(* ------------------- what a caller observes of a file ----------------- *)
Processed(f) == f \in DOMAIN head_dict
Rows(f) == file_list[f].rows
\* the row number a user sees for the p-th data row of the sheet
External(p) == (p - 1) + 2

IsInvalidOf(f, m) == m.kind = "invalid" /\ m.file = f
IsDuplicateOf(f, m) == m.kind = "duplicate" /\ m.file = f
IsSummaryOf(f, m) == m.kind = "summary" /\ m.file = f

\* the invalid-cells log of file f: (row_index, invalid_cell_count)
InvalidLog(f) ==
    LET T(m) == IsInvalidOf(f, m)
        ms == SelectSeq(out, T)
    IN  [j \in 1..Len(ms) |-> <<ms[j].row, ms[j].count>>]

\* the duplicates log of file f: (row_index, date)
DupLog(f) ==
    LET T(m) == IsDuplicateOf(f, m)
        ms == SelectSeq(out, T)
    IN  [j \in 1..Len(ms) |-> <<ms[j].row, ms[j].date>>]

\* the counts lines of file f
Summaries(f) ==
    LET T(m) == IsSummaryOf(f, m)
    IN  SelectSeq(out, T)

Range(q) == {q[j] : j \in DOMAIN q}

\* the data rows of file f whose date cell is parseable / is not
GoodRows(f) == {p \in DOMAIN Rows(f) : ~ToDatetime(Rows(f)[p][1]).isna}
BadRows(f) == DOMAIN Rows(f) \ GoodRows(f)
DateOfRow(f, p) == ToDatetime(Rows(f)[p][1]).v
RowsOfDate(f, d) == {p \in GoodRows(f) : DateOfRow(f, p) = d}
Max(S) == CHOOSE x \in S : \A y \in S : y <= x
Min(S) == CHOOSE x \in S : \A y \in S : x <= y

(* -------------- section 4.1 and 4.4: the row-by-row reference --------- *)
NumeralOnly(s) == s \in {"3", "5"}
NumeralValue(s) == CASE s = "3" -> 3 [] s = "5" -> 5

\* section 4.4: numbers and numeral-only strings coerce; booleans, blanks
\* and non-numeric strings are invalid and count 0
AmountCoercion(c) ==
    CASE c.k = "int" -> Val(c.n)
      [] c.k = "text" /\ NumeralOnly(c.s) -> Val(NumeralValue(c.s))
      [] OTHER -> NA

RECURSIVE SpecTotal(_, _)
SpecTotal(row, cs) ==
    IF cs = {} THEN 0
    ELSE LET c == CHOOSE x \in cs : TRUE
         IN  AmountCoercion(row[c]).v + SpecTotal(row, cs \ {c})

SpecInvalidCount(row) == Cardinality({c \in cols : AmountCoercion(row[c]).isna})

\* section 4.1, steps 1-5 for the p-th row
RowStep(acc, row, p) ==
    LET d == ToDatetime(row[1])
        total == SpecTotal(row, cols)
        inv == SpecInvalidCount(row)
    IN  IF d.isna
        THEN [acc EXCEPT !.total_rows = @ + 1, !.date_errors = @ + 1]
        ELSE [total_rows |-> acc.total_rows + 1,
              date_errors |-> acc.date_errors,
              invalid_log |-> IF inv > 0
                              THEN Append(acc.invalid_log, <<External(p), inv>>)
                              ELSE acc.invalid_log,
              dup_log |-> IF d.v \in DOMAIN acc.series
                          THEN Append(acc.dup_log, <<External(p), d.v>>)
                          ELSE acc.dup_log,
              series |-> [x \in DOMAIN acc.series \cup {d.v} |->
                            IF x = d.v THEN total ELSE acc.series[x]]]

\* section 4.1: the rows are visited in their original order
RowInterpreter(rows) ==
    LET F[p \in 0..Len(rows)] ==
            IF p = 0
            THEN [total_rows |-> 0, date_errors |-> 0, invalid_log |-> <<>>,
                  dup_log |-> <<>>, series |-> EmptyDict]
            ELSE RowStep(F[p - 1], rows[p], p)
    IN  F[Len(rows)]

(* ------------------------------- claims ------------------------------- *)
\* C1: for the rows of every processed file, process_files yields the same
\* series, the same total_rows (rows counted as valid plus date errors), the
\* same date_errors, the same invalid-cells log and the same duplicates log
\* as the row-by-row interpreter of section 4.1.
C1_BulkEqualsRowInterpreter ==
    \A f \in DOMAIN head_dict :
        LET r == RowInterpreter(Rows(f))
            sm == Summaries(f)
        IN  /\ head_dict[f] = r.series
            /\ Len(sm) = 1
            /\ sm[1].count + sm[1].errors = r.total_rows
            /\ sm[1].errors = r.date_errors
            /\ InvalidLog(f) = r.invalid_log
            /\ DupLog(f) = r.dup_log

\* C2: for a date that occurs in k valid-date rows of a processed file, the
\* stored total is the total of the highest-index row of that date, and the
\* duplicates log has exactly k-1 entries for the date: one for every
\* occurrence but the first, with that row's external index.
C2_DuplicateKeyLaw ==
    \A f \in DOMAIN head_dict :
        \A d \in {DateOfRow(f, p) : p \in GoodRows(f)} :
            LET P == RowsOfDate(f, d)
                entries == {j \in DOMAIN DupLog(f) : DupLog(f)[j][2] = d}
            IN  /\ d \in DOMAIN head_dict[f]
                /\ head_dict[f][d] = RowSum(Rows(f)[Max(P)])
                /\ Cardinality(entries) = Cardinality(P) - 1
                /\ {DupLog(f)[j][1] : j \in entries} = {External(p) : p \in P \ {Min(P)}}

\* C2 happens: a date in three rows, the last total differing from the first
C2_Witness ==
    \E f \in DOMAIN head_dict :
        \E d \in DOMAIN head_dict[f] :
            /\ Cardinality(RowsOfDate(f, d)) = 3
            /\ RowSum(Rows(f)[Max(RowsOfDate(f, d))]) # RowSum(Rows(f)[Min(RowsOfDate(f, d))])

\* C3: in a processed file, the rows whose date cell is not parseable give no
\* key to the series, are counted one each in date_errors, and appear in
\* neither the invalid-cells log nor the duplicates log.
C3_DateErrorLaw ==
    \A f \in DOMAIN head_dict :
        /\ Len(Summaries(f)) = 1
        /\ Summaries(f)[1].errors = Cardinality(BadRows(f))
        /\ DOMAIN head_dict[f] = {DateOfRow(f, p) : p \in GoodRows(f)}
        /\ \A p \in BadRows(f) :
              /\ \A e \in Range(InvalidLog(f)) : e[1] # External(p)
              /\ \A e \in Range(DupLog(f)) : e[1] # External(p)

\* C3 happens: a processed file has a date-error row with unusable amounts
C3_Witness ==
    \E f \in DOMAIN head_dict :
        \E p \in BadRows(f) : SpecInvalidCount(Rows(f)[p]) > 0

\* C4: for every valid-date row of a processed file the row total is the sum
\* of the four amount cells with booleans, blanks and non-numeric strings
\* counting 0, and the invalid-cells log has (external index, invalid count)
\* for the row if and only if that count is positive.
C4_InvalidCellLaw ==
    /\ pc \in {"invalid", "dups", "final"} =>
          \A q \in DOMAIN df_valid :
              /\ sum_val[q] = SpecTotal(df_valid[q].row, cols)
              /\ invalid_count[q] = SpecInvalidCount(df_valid[q].row)
    /\ \A f \in DOMAIN head_dict :
          Range(InvalidLog(f)) =
              {<<External(p), SpecInvalidCount(Rows(f)[p])>> :
                  p \in {g \in GoodRows(f) : SpecInvalidCount(Rows(f)[g]) > 0}}

C6_FileErrorRecovery ==
    (pc \in {"done", "raised"} /\ \E f \in DOMAIN file_list : ~file_list[f].readable) =>
        \A f \in DOMAIN file_list :
            IF file_list[f].readable
            THEN f \in DOMAIN head_dict
            ELSE /\ f \notin DOMAIN head_dict
                 /\ \E j \in DOMAIN out : out[j] = ReadErrorMsg(f)

\* C7: process_files never raises, whatever a readable file contains.
C7_NeverRaises == pc # "raised"

\* C8: with an empty listing process_files returns an empty mapping, and the
\* only line printed is the notice that nothing was found.
C8_EmptyInput ==
    (file_list = <<>> /\ pc = "done") =>
        /\ DOMAIN head_dict = {}
        /\ \A j \in DOMAIN out : out[j].kind = "nofiles"

\* C8 happens: process_files has returned for an empty listing
C8_Witness == file_list = <<>> /\ pc = "done" /\ out # <<>>

\* C9: the row index of every warning is the zero-based sheet index of the
\* row it is about plus 2: that sheet row has a parseable date and, for an
\* invalid-cells warning, the reported count of unusable cells; for a
\* duplicate warning, the reported date and an earlier row of the same date.
C9_ExternalRowIndex ==
    \A j \in DOMAIN out :
        out[j].kind \in {"invalid", "duplicate"} =>
            LET f == out[j].file
                p == (out[j].row - 2) + 1
            IN  /\ p \in GoodRows(f)
                /\ out[j].kind = "invalid" =>
                      /\ out[j].count > 0
                      /\ out[j].count = RowInvalidCount(Rows(f)[p])
                /\ out[j].kind = "duplicate" =>
                      /\ out[j].date = DateOfRow(f, p)
                      /\ \E q \in GoodRows(f) : q < p /\ DateOfRow(f, q) = DateOfRow(f, p)

\* C9 happens: a warning about a row that follows a date-error row
C9_Witness ==
    \E j \in DOMAIN out :
        /\ out[j].kind \in {"invalid", "duplicate"}
        /\ \E b \in BadRows(out[j].file) : External(b) < out[j].row

\* C10: in the output, the invalid-cells warnings of a file come in strictly
\* ascending row index, so do its duplicate warnings, and no line of a file
\* comes after a line of a later file.
C10_DiagnosticOrder ==
    \A a, b \in DOMAIN out :
        a < b =>
            /\ out[a].file <= out[b].file
            /\ (out[a].file = out[b].file /\ out[a].kind = out[b].kind
                    /\ out[a].kind \in {"invalid", "duplicate"})
                  => out[a].row < out[b].row

\* C10 happens: two invalid-cells warnings of one file, then a warning of
\* the next file
C10_Witness ==
    \E a, b, c \in DOMAIN out :
        /\ a < b /\ b < c
        /\ out[a].kind = "invalid" /\ out[b].kind = "invalid"
        /\ out[a].file = out[b].file
        /\ out[c].kind \in {"invalid", "duplicate"}
        /\ out[c].file > out[b].file

=============================================================================
